---- MODULE Spec2Model ----
(***************************************************************************)
(* Model of sgcache/web/core.py: the API3 JSON dispatcher (json_api), the  *)
(* upstream client (passthrough) and the binary streaming proxy (proxy).   *)
(* One behaviour of the model is the handling of one HTTP request.         *)
(***************************************************************************)
EXTENDS Integers, Sequences, FiniteSets, TLC

VARIABLES
    route,            \* which Flask view serves the request: "json_api" or "proxy"
    request,          \* the incoming request: [headers, data]
    api3_methods,     \* the Method Registry (names registered by api3_method)
    pc,               \* position of the view function
    g_api3_payload,   \* g.api3_payload
    method_name,      \* locals of json_api
    auth_params,
    method_params,
    entity_type,
    result,
    num_entities,
    exc,              \* the exception in flight inside the try block of json_api
    coroutine,        \* the generator a Two-Phase handler returned
    passthrough_results, \* what passthrough(params=...) returned to json_api
    handler_calls,    \* how often method(method_params) was invoked
    handler_returned, \* what method(method_params) returned, Unbound before
    upstream_calls,   \* the requests sent through http_session, in order
    upstream_replies, \* the upstream's answer to each of them, in order
    log,              \* records emitted through log.info / log.warning
    skip_http_log,    \* log_globals.skip_http_log
    response          \* what the client gets

vars == <<route, request, api3_methods, pc, g_api3_payload, method_name,
          auth_params, method_params, entity_type, result, num_entities, exc,
          coroutine, passthrough_results, handler_calls, handler_returned,
          upstream_calls, upstream_replies, log, skip_http_log, response>>

----------------------------------------------------------------------------
(* Bounds of the model. *)

\* longest params sequence of an envelope
MaxParams == 3
\* most values a generator yields after the one taken as its result
MaxExtra == 1

----------------------------------------------------------------------------
(* Python and JSON values, as tagged records. *)

None == [t |-> "None"]
Unbound == [t |-> "unbound"]
JNum(n) == [t |-> "num", n |-> n]
JStr(s) == [t |-> "str", s |-> s]
JBool(b) == [t |-> "bool", b |-> b]
JList(items) == [t |-> "list", items |-> items]
PyTuple(items) == [t |-> "tuple", items |-> items]
JMap(kv) == [t |-> "dict", kv |-> kv]
EmptyKV == [k \in {} |-> None]
EmptyMap == JMap(EmptyKV)

isdict(v) == v.t = "dict"
islist(v) == v.t = "list"
HasKey(v, k) == k \in DOMAIN v.kv

\* Python truth value of a JSON value.
Truthy(v) ==
    CASE v.t = "None" -> FALSE
      [] v.t = "num" -> v.n # 0
      [] v.t = "str" -> v.s # ""
      [] v.t = "bool" -> v.b
      [] v.t \in {"list", "tuple"} -> Len(v.items) > 0
      [] v.t = "dict" -> DOMAIN v.kv # {}
      [] OTHER -> TRUE

\* dict.get(k): the value, or None.
DictGet(v, k) == IF HasKey(v, k) THEN v.kv[k] ELSE None

\* A text: the bytes of a body.  val is what json.loads makes of it
\* (Undecodable when it is no JSON document), fmt tells who laid the bytes
\* out (json.dumps of this process, the client, the upstream).
Undecodable == [t |-> "undecodable"]
Text(val, fmt) == [t |-> "text", val |-> val, fmt |-> fmt]
EmptyText == Text(Undecodable, "empty")

\* json.dumps turns tuples into lists and python strings into JSON strings.
RECURSIVE ToJson(_)
ToJson(v) ==
    CASE v.t \in {"list", "tuple"} ->
            JList([i \in 1..Len(v.items) |-> ToJson(v.items[i])])
      [] v.t = "dict" -> JMap([k \in DOMAIN v.kv |-> ToJson(v.kv[k])])
      [] v.t = "text" -> [t |-> "str", s |-> "<text>", of |-> v]
      [] OTHER -> v

\* Values json.dumps refuses (TypeError).
RECURSIVE Serializable(_)
Serializable(v) ==
    CASE v.t \in {"Response", "generator", "unbound", "undecodable"} -> FALSE
      [] v.t \in {"list", "tuple"} ->
            \A i \in 1..Len(v.items) : Serializable(v.items[i])
      [] v.t = "dict" -> \A k \in DOMAIN v.kv : Serializable(v.kv[k])
      [] OTHER -> TRUE

json_dumps(v) == Text(ToJson(v), "json.dumps")
json_loads(text) == text.val

----------------------------------------------------------------------------
(* Headers.  A header set is a set of <<name, value>> pairs. *)

Lower(k) ==
    CASE k \in {"Host", "host"} -> "host"
      [] k \in {"Connection", "connection"} -> "connection"
      [] k \in {"Transfer-Encoding", "transfer-encoding"} -> "transfer-encoding"
      [] k = "Keep-Alive" -> "keep-alive"
      [] k = "Content-Type" -> "content-type"
      [] k = "Etag" -> "etag"
      [] OTHER -> k

\* werkzeug.http._hop_by_hop_headers
HopByHop == {"connection", "keep-alive", "proxy-authenticate",
             "proxy-authorization", "te", "trailer", "transfer-encoding",
             "upgrade"}

\* werkzeug.http.remove_hop_by_hop_headers(headers), on a list of pairs
remove_hop_by_hop_headers(headers) ==
    {h \in headers : Lower(h[1]) \notin HopByHop}

\* the filter comparing k, not k.lower(), with 'host'
without_host_as_spelled(headers) == {h \in headers : h[1] # "host"}

\* [(k, v) for k, v in request.headers.iteritems() if k.lower() != 'host']
without_host(headers) == {h \in headers : Lower(h[1]) # "host"}

\* the header set passthrough and proxy send upstream
outbound_headers(headers) == remove_hop_by_hop_headers(without_host(headers))

\* the header set proxy relays from the upstream's response
relayed_headers(headers) == remove_hop_by_hop_headers(headers)

HeaderSet(names) == {<<k, "v">> : k \in names}
JsonContentType == {<<"Content-Type", "application/json">>}
HtmlContentType == {<<"Content-Type", "text/html; charset=utf-8">>}

----------------------------------------------------------------------------
(* Streaming: iter_content(8192) cuts a body of n bytes into chunks. *)

CHUNK == 8192

Min(a, b) == IF a < b THEN a ELSE b

\* chunks of exactly `size` bytes only: the bytes after the last full chunk
\* are not read
iter_content_full_chunks(n, size) ==
    [i \in 1..(n \div size) |-> [off |-> (i - 1) * size, len |-> size]]

\* http_response.iter_content(size) on a body of n bytes
iter_content(n, size) ==
    [i \in 1..((n + size - 1) \div size) |->
        [off |-> (i - 1) * size, len |-> Min(size, n - (i - 1) * size)]]

\* A body relayed as a stream of chunks of the upstream's body `text`.
Stream(text, n) ==
    [t |-> "stream", src |-> text, total |-> n, chunks |-> iter_content(n, CHUNK)]

RECURSIVE Contiguous(_, _)
\* the number of bytes the chunks cover when each starts where the one
\* before it ended, and -1 when they do not
Contiguous(chunks, at) ==
    IF Len(chunks) = 0 THEN at
    ELSE IF Head(chunks).off # at THEN 0 - 1
    ELSE Contiguous(Tail(chunks), at + Head(chunks).len)

\* What the client has once it read a response body to its end.
Delivered(body) ==
    IF body.t = "stream"
    THEN IF Contiguous(body.chunks, 0) = body.total
         THEN body.src
         ELSE [t |-> "damaged", src |-> body.src]
    ELSE body

\* flask.Response(body, status, headers)
Response(body, status, headers) ==
    [t |-> "Response", body |-> body, status |-> status, headers |-> headers]

----------------------------------------------------------------------------
(* Exceptions. *)

Exc(cls, args) == [t |-> "exc", cls |-> cls, args |-> args]
Fault(code, message) ==
    [t |-> "exc", cls |-> "Fault", args |-> <<JStr(message)>>, code |-> code]
NoExc == [t |-> "exc", cls |-> "none", args |-> <<>>]

\* class ReturnResponse(ValueError); class ReturnPassthroughError(ReturnResponse)
IsReturnResponse(e) == e.cls \in {"ReturnResponse", "ReturnPassthroughError"}
IsFault(e) == e.cls = "Fault"
IsPassthrough(e) == e.cls = "Passthrough"

\* [('Content-Type', 'application/json')]
JsonHeaderList ==
    JList(<<PyTuple(<<JStr("Content-Type"), JStr("application/json")>>)>>)

----------------------------------------------------------------------------
(* The upstream server: any status, any body. *)

FALLBACK_URL == "FALLBACK_SERVER/api3/json"

OkBody == Text(JMap([results |-> JList(<<JNum(1)>>)]), "upstream")
FaultBody ==
    Text(JMap([exception |-> JBool(TRUE), error_code |-> JNum(103),
               message |-> JStr("upstream fault")]), "upstream")
ErrorPage == Text(Undecodable, "upstream")

UpstreamReply(status, text, len, headers) ==
    [status |-> status, text |-> text, len |-> len, headers |-> headers]

\* what the upstream may answer to a call on /api3/json
JsonReplies ==
    {UpstreamReply(200, OkBody, 20000, JsonContentType),
     UpstreamReply(200, FaultBody, 60, JsonContentType),
     UpstreamReply(200, ErrorPage, 8192, JsonContentType),
     UpstreamReply(404, ErrorPage, 8192, JsonContentType),
     UpstreamReply(500, FaultBody, 60, JsonContentType)}

----------------------------------------------------------------------------
(* passthrough(payload=None, params=None, raise_exceptions=True,           *)
(*             stream=False, final=False)                                  *)

\* payload['params'][-1] = params, on the copy of the stored envelope
set_last_param(payload, params) ==
    LET ps == payload.kv["params"] IN
    CASE ps.t = "list" /\ Len(ps.items) > 0 ->
            [ok |-> TRUE, exc |-> NoExc,
             payload |-> JMap([payload.kv EXCEPT !["params"] =
                JList([ps.items EXCEPT ![Len(ps.items)] = params])])]
      [] ps.t = "list" ->
            [ok |-> FALSE, exc |-> Exc("IndexError", <<>>), payload |-> payload]
      [] ps.t = "dict" ->
            [ok |-> TRUE, exc |-> NoExc,
             payload |-> JMap([payload.kv EXCEPT !["params"] =
                JMap([k \in DOMAIN ps.kv \cup {"-1"} |->
                        IF k = "-1" THEN params ELSE ps.kv[k]])])]
      [] OTHER ->
            [ok |-> FALSE, exc |-> Exc("TypeError", <<>>), payload |-> payload]

\* passthrough writing the override into g.api3_payload itself, with no copy
passthrough_request_in_place(stored, headers, params, stream) ==
    LET set == IF params # None
               THEN set_last_param(stored, params)
               ELSE [ok |-> TRUE, exc |-> NoExc, payload |-> stored]
    IN  [ok |-> set.ok, exc |-> set.exc, stored |-> set.payload,
         req |-> [url |-> FALLBACK_URL,
                  data |-> json_dumps(set.payload),
                  headers |-> outbound_headers(headers),
                  stream |-> stream]]

\* Lines 52-63: the request passthrough sends, or the exception that stops
\* it before anything is sent.  `stored` is g.api3_payload, which the deep
\* copy leaves as it is.
passthrough_request(stored, headers, params, stream) ==
    LET copied == stored
        set == IF params # None
               THEN set_last_param(copied, params)
               ELSE [ok |-> TRUE, exc |-> NoExc, payload |-> copied]
    IN  [ok |-> set.ok, exc |-> set.exc, stored |-> stored,
         req |-> [url |-> FALLBACK_URL,
                  data |-> json_dumps(set.payload),
                  headers |-> outbound_headers(headers),
                  stream |-> stream]]

\* 'exception' in response_data
contains_exception(data) ==
    CASE data.t = "dict" -> HasKey(data, "exception")
      [] data.t \in {"list", "tuple"} ->
            \E i \in 1..Len(data.items) : data.items[i] = JStr("exception")
      [] OTHER -> FALSE

\* Lines 67-86: what passthrough makes of the upstream's reply `up`.
passthrough_outcome(up, stream, final, raise_exceptions) ==
    LET body == IF stream THEN Stream(up.text, up.len) ELSE up.text IN
    CASE up.status # 200 ->
            [raised |-> TRUE,
             exc |-> Exc("ReturnPassthroughError",
                         <<Response(body, up.status, JsonContentType)>>),
             value |-> None]
      [] up.status = 200 /\ (stream \/ final) ->
            [raised |-> FALSE, exc |-> NoExc,
             value |-> Response(body, 200, JsonContentType)]
      [] OTHER ->
            LET response_data == json_loads(up.text) IN
            IF response_data = Undecodable
            THEN [raised |-> TRUE, exc |-> Exc("ValueError", <<>>), value |-> None]
            ELSE IF raise_exceptions /\ contains_exception(response_data)
            THEN [raised |-> TRUE,
                  exc |-> Exc("ReturnResponse",
                              <<up.text, JNum(200), JsonHeaderList>>),
                  value |-> None]
            ELSE [raised |-> FALSE, exc |-> NoExc, value |-> response_data]

----------------------------------------------------------------------------
(* What Flask sends for the value a view returns. *)

\* a list of (name, value) tuples as a header set
HeaderPairs(list) ==
    {<<list.items[i].items[1].s, list.items[i].items[2].s>> :
        i \in 1..Len(list.items)}

Sent(status, body, headers) ==
    [kind |-> "response", status |-> status, body |-> body, headers |-> headers]
Unhandled(e) == [kind |-> "error", exc |-> e.cls]
NoResponse == [kind |-> "none"]

make_response(rv) ==
    CASE rv.t = "Response" -> Sent(rv.status, rv.body, rv.headers)
      [] rv.t = "tuple" /\ Len(rv.items) = 1 /\ rv.items[1].t = "Response" ->
            Sent(rv.items[1].status, rv.items[1].body, rv.items[1].headers)
      [] rv.t = "tuple" /\ Len(rv.items) = 3 /\ rv.items[1].t = "text" ->
            Sent(rv.items[2].n, rv.items[1],
                 IF Len(rv.items[3].items) = 0 THEN HtmlContentType
                 ELSE HeaderPairs(rv.items[3]))
      [] OTHER -> Unhandled(Exc("TypeError", <<>>))

----------------------------------------------------------------------------
(* The requests a client may send. *)

MethodNames == {"read", "batch"}
\* what api3_method may have registered at startup
Registries == {{"read"}, {"read", "batch"}}

AuthContexts ==
    {EmptyMap,
     JMap([script_name |-> JStr("script"), sudo_as_login |-> JStr("bob")]),
     JMap([user_login |-> JStr("alice")])}

BatchItem(request_type) == JMap([request_type |-> JStr(request_type)])

MethodParamChoices ==
    {EmptyMap,
     JMap([type |-> JStr("Shot")]),
     JList(<<BatchItem("read"), BatchItem("read"), BatchItem("create")>>),
     JList(<<BatchItem("create"), BatchItem("read")>>),
     JList(<<JMap([entity |-> JStr("Shot")])>>)}

\* params sequences of length n: Auth Context, Method Params, then fillers
ParamSeqs(n) ==
    CASE n = 0 -> {<< >>}
      [] n = 1 -> {<<a>> : a \in AuthContexts}
      [] OTHER -> {<<a, m>> \o [i \in 1..(n - 2) |-> JStr("extra")] :
                      a \in AuthContexts, m \in MethodParamChoices}

Envelope(name, params) == JMap([method_name |-> JStr(name), params |-> params])

SequenceEnvelopes ==
    {Envelope(m, JList(ps)) :
        m \in MethodNames, ps \in UNION {ParamSeqs(n) : n \in 0..MaxParams}}

\* envelopes with a method_name whose params are missing or no sequence
OddParamsEnvelopes ==
    {Envelope("read", p) :
        p \in {EmptyMap, JMap([a |-> JNum(1)]), JNum(0), JNum(5), None, JStr("")}}
    \cup {JMap([method_name |-> JStr("read")])}

NoMethodEnvelopes ==
    {EmptyMap, JMap([params |-> JList(<<EmptyMap, EmptyMap>>)])}

NonMapPayloads == {JList(<< >>), JList(<<JNum(1)>>), JNum(5), JStr("x"), None}

RequestBodies ==
    {Text(v, "client") :
        v \in SequenceEnvelopes \cup OddParamsEnvelopes \cup NoMethodEnvelopes
              \cup NonMapPayloads \cup {Undecodable}}

ProxyRequestHeaderNames ==
    {"Host", "Connection", "Transfer-Encoding", "Content-Type"}

JsonRequestHeaders ==
    {HeaderSet(names) :
        names \in {{"Content-Type"},
                   {"Host", "Connection", "Transfer-Encoding", "Keep-Alive",
                    "Content-Type"}}}

----------------------------------------------------------------------------
(* json_api, lines 111-122: decoding the envelope. *)

Parsed(outcome, e, name, auth, mp) ==
    [outcome |-> outcome, exc |-> e, method_name |-> name,
     auth_params |-> auth, method_params |-> mp]
Rejected == Parsed("400", NoExc, None, None, None)
ParseRaises(cls) == Parsed("raise", Exc(cls, <<>>), None, None, None)

\* params[i] (0-based) of a sequence-like value; only called when it exists
Item(params, i) ==
    IF params.t = "list" THEN params.items[i + 1]
    ELSE JStr("c")

\* len(params), or -1 when len() raises TypeError
PyLen(params) ==
    CASE params.t \in {"list", "tuple"} -> Len(params.items)
      [] params.t = "dict" -> Cardinality(DOMAIN params.kv)
      [] params.t = "str" -> IF params.s = "" THEN 0 ELSE 2
      [] OTHER -> 0 - 1

\* payload.get('method_name', ''): a missing name does not stop the request
get_method_name_or_default(payload) ==
    [found |-> TRUE,
     value |-> IF HasKey(payload, "method_name")
               THEN payload.kv["method_name"] ELSE JStr("")]

\* line 117: payload['method_name'], found FALSE for KeyError
get_method_name(payload) ==
    IF HasKey(payload, "method_name")
    THEN [found |-> TRUE, value |-> payload.kv["method_name"]]
    ELSE [found |-> FALSE, value |-> None]

json_api_parse(payload) ==
    IF payload = Undecodable THEN ParseRaises("ValueError")
    ELSE IF ~isdict(payload) THEN Rejected
    ELSE IF ~get_method_name(payload).found THEN Rejected
    ELSE IF ~HasKey(payload, "params") THEN Rejected
    ELSE
      LET name == get_method_name(payload).value
          params == payload.kv["params"]
      IN
      \* auth_params = params[0] if params else {}
      IF Truthy(params) /\ params.t = "dict" THEN Rejected
      ELSE IF Truthy(params) /\ params.t \notin {"list", "str"}
      THEN ParseRaises("TypeError")
      ELSE
        LET auth == IF Truthy(params) THEN Item(params, 0) ELSE EmptyMap IN
        \* method_params = params[1] if len(params) > 1 else {}
        IF PyLen(params) < 0 THEN ParseRaises("TypeError")
        ELSE Parsed("ok", NoExc, name, auth,
                    IF PyLen(params) > 1 THEN Item(params, 1) ELSE EmptyMap)

----------------------------------------------------------------------------
(* json_api, lines 124-148: the headline of the request. *)

\* the items of a batch all carry request_type
BatchItemsOk(mp) ==
    \A i \in 1..Len(mp.items) :
        isdict(mp.items[i]) /\ HasKey(mp.items[i], "request_type")

\* batch_counts: request_type -> number of items
batch_counts(mp) ==
    LET names == {mp.items[i].kv["request_type"].s : i \in 1..Len(mp.items)} IN
    [n \in names |->
        Cardinality({i \in 1..Len(mp.items) :
                        mp.items[i].kv["request_type"].s = n})]

\* batch_counts.iteritems() as it comes: every order of the names
unsorted(counts) ==
    {order \in [1..Cardinality(DOMAIN counts) -> DOMAIN counts] :
        \A i, j \in DOMAIN order : i # j => order[i] # order[j]}

\* sorted(batch_counts.iteritems(), key=lambda x: x[1]): every order of the
\* names that ascends by count (equal counts keep the dict's order, which
\* is arbitrary)
sorted_by_count(counts) ==
    {order \in [1..Cardinality(DOMAIN counts) -> DOMAIN counts] :
        /\ \A i, j \in DOMAIN order : i # j => order[i] # order[j]
        /\ \A i, j \in DOMAIN order : i < j => counts[order[i]] <= counts[order[j]]}

\* '%d %s%s' % (count, name, 's' if count != 1 else '')
batch_chunks(counts, order) ==
    [i \in DOMAIN order |->
        [count |-> counts[order[i]], name |-> order[i],
         plural |-> IF counts[order[i]] # 1 THEN "s" ELSE ""]]

IsBatch(name, mp) == ~isdict(mp) /\ name = JStr("batch") /\ islist(mp)

\* the exception lines 124-148 end in, NoExc when they run through
headline_exc(name, auth, mp) ==
    IF IsBatch(name, mp) /\ ~BatchItemsOk(mp)
    THEN IF \E i \in 1..Len(mp.items) : ~isdict(mp.items[i])
         THEN Exc("TypeError", <<>>) ELSE Exc("KeyError", <<>>)
    ELSE IF ~isdict(auth) THEN Exc("AttributeError", <<>>)
    ELSE NoExc

\* the record log.info(' '.join(headline_chunks)) emits
headline(name, auth, mp, order) ==
    [level |-> "info", event |-> "Starting", method_name |-> name,
     on |-> IF isdict(mp) /\ Truthy(DictGet(mp, "type"))
            THEN DictGet(mp, "type") ELSE None,
     batch |-> IF IsBatch(name, mp)
               THEN JList(batch_chunks(batch_counts(mp), order)) ELSE None,
     by_script |-> IF Truthy(DictGet(auth, "script_name"))
                   THEN DictGet(auth, "script_name") ELSE None,
     as_user |-> IF Truthy(DictGet(auth, "script_name"))
                    /\ Truthy(DictGet(auth, "sudo_as_login"))
                 THEN DictGet(auth, "sudo_as_login") ELSE None,
     by_user |-> IF ~Truthy(DictGet(auth, "script_name"))
                    /\ Truthy(DictGet(auth, "user_login"))
                 THEN DictGet(auth, "user_login") ELSE None]

----------------------------------------------------------------------------
(* What a registered handler, a black box to the dispatcher, may do. *)

PrebuiltResponse ==
    Response(Text(JStr("prebuilt"), "handler"), 201, HeaderSet({"X-Cache"}))

\* values a handler returns, or yields as its result
HandlerValues ==
    {JMap([entities |-> JList(<<EmptyMap, EmptyMap>>)]),
     EmptyMap,
     JNum(7),
     JList(<<JNum(1)>>),
     JList(<< >>),
     PrebuiltResponse}

\* exceptions a handler raises
HandlerRaises ==
    {Fault(102, "Not found"), Fault(103, "Other"),
     Exc("Passthrough", <<JStr("reason")>>),
     Exc("ReturnResponse", <<Text(JStr("own"), "handler"), JNum(200), JsonHeaderList>>),
     Exc("ReturnPassthroughError",
         <<Response(Text(JStr("relayed"), "handler"), 502, JsonContentType)>>),
     Exc("RuntimeError", <<>>)}

\* values a generator yields to ask for an upstream call
Overrides == {None, JMap([type |-> JStr("Shot"), fields |-> JList(<<JStr("id")>>)])}

\* values a generator yields after its result
ExtraValues == {JNum(99), EmptyMap}

NoCoroutine == [state |-> "none", yielded |-> << >>, sent |-> << >>]
StopIteration == Exc("StopIteration", <<>>)

----------------------------------------------------------------------------
(* State after the request arrived and Flask picked the view. *)

Init ==
    /\ route \in {"json_api", "proxy"}
    /\ request \in
         IF route = "json_api"
         THEN {[headers |-> h, data |-> d] :
                  h \in JsonRequestHeaders, d \in RequestBodies}
         ELSE {[headers |-> HeaderSet(names), data |-> EmptyText] :
                  names \in SUBSET ProxyRequestHeaderNames}
    /\ api3_methods \in Registries
    /\ pc = "start"
    /\ g_api3_payload = Unbound
    /\ method_name = Unbound
    /\ auth_params = Unbound
    /\ method_params = Unbound
    /\ entity_type = Unbound
    /\ result = Unbound
    /\ num_entities = Unbound
    /\ exc = NoExc
    /\ coroutine = NoCoroutine
    /\ passthrough_results = Unbound
    /\ handler_calls = 0
    /\ handler_returned = Unbound
    /\ upstream_calls = << >>
    /\ upstream_replies = << >>
    /\ log = << >>
    /\ skip_http_log = FALSE
    /\ response = NoResponse

env == <<route, request, api3_methods>>
locals == <<method_name, auth_params, method_params, entity_type>>
driver == <<coroutine, passthrough_results, handler_calls, handler_returned>>
upstream == <<upstream_calls, upstream_replies>>

\* the view returns rv
Return(rv) == /\ response' = make_response(rv) /\ pc' = "done"
\* the view ends in an exception nothing catches
Propagate(e) == /\ response' = Unhandled(e) /\ pc' = "done"

\* lines 111-122
json_api_decode ==
    /\ route = "json_api" /\ pc = "start"
    /\ LET payload == json_loads(request.data)
           p == json_api_parse(payload)
       IN  /\ g_api3_payload' = IF payload = Undecodable THEN Unbound ELSE payload
           /\ CASE p.outcome = "400" ->
                     /\ Return(PyTuple(<<EmptyText, JNum(400), JList(<< >>)>>))
                     /\ UNCHANGED <<method_name, auth_params, method_params>>
                [] p.outcome = "raise" ->
                     /\ Propagate(p.exc)
                     /\ UNCHANGED <<method_name, auth_params, method_params>>
                [] OTHER ->
                     /\ method_name' = p.method_name
                     /\ auth_params' = p.auth_params
                     /\ method_params' = p.method_params
                     /\ pc' = "headline"
                     /\ UNCHANGED response
    /\ UNCHANGED <<env, entity_type, result, num_entities, exc, driver,
                   upstream, log, skip_http_log>>

\* lines 124-148
json_api_headline ==
    /\ pc = "headline"
    /\ entity_type' = IF isdict(method_params)
                      THEN DictGet(method_params, "type") ELSE Unbound
    /\ LET e == headline_exc(method_name, auth_params, method_params) IN
       IF e # NoExc
       THEN Propagate(e) /\ UNCHANGED log
       ELSE /\ \E order \in
                    IF IsBatch(method_name, method_params)
                    THEN sorted_by_count(batch_counts(method_params))
                    ELSE {<< >>} :
                  log' = Append(log, headline(method_name, auth_params,
                                              method_params, order))
            /\ pc' = "lookup"
            /\ UNCHANGED response
    /\ UNCHANGED <<env, g_api3_payload, method_name, auth_params, method_params,
                   result, num_entities, exc, driver, upstream, skip_http_log>>

\* a delegation called as passthrough(params=method_params, stream=True)
Delegate_with_params(up) ==
    LET r == passthrough_request(g_api3_payload, request.headers,
                                 method_params, TRUE) IN
    /\ upstream_calls' = Append(upstream_calls, r.req)
    /\ upstream_replies' = Append(upstream_replies, up)
    /\ g_api3_payload' = r.stored

\* a delegation that sends its request a second time
Delegate_twice(up) ==
    LET r == passthrough_request(g_api3_payload, request.headers, None, TRUE) IN
    /\ upstream_calls' = upstream_calls \o <<r.req, r.req>>
    /\ upstream_replies' = upstream_replies \o <<up, up>>
    /\ g_api3_payload' = r.stored

\* `passthrough(stream=True)` as json_api calls it at lines 158 and 210,
\* answered by the upstream with `up`: the call made and what comes of it
Delegate(up) ==
    LET r == passthrough_request(g_api3_payload, request.headers, None, TRUE) IN
    /\ upstream_calls' = Append(upstream_calls, r.req)
    /\ upstream_replies' = Append(upstream_replies, up)
    /\ g_api3_payload' = r.stored
Delegated(up) == passthrough_outcome(up, TRUE, FALSE, TRUE)

\* lines 150-158, method_name not in _api3_methods: the call is in no try
\* block, so what passthrough raises leaves json_api
json_api_unknown_method ==
    /\ pc = "lookup"
    /\ method_name.s \notin api3_methods
    /\ log' = Append(log, [level |-> "info", event |-> "Passing through",
                           method_name |-> method_name,
                           reason |-> "unknown API method"])
    /\ \E up \in JsonReplies :
         /\ Delegate(up)
         /\ IF Delegated(up).raised
            THEN Propagate(Delegated(up).exc)
            ELSE Return(Delegated(up).value)
    /\ UNCHANGED <<env, locals, result, num_entities, exc, driver,
                   skip_http_log>>

\* lines 150-151 and 160, method_name in _api3_methods
json_api_lookup ==
    /\ pc = "lookup"
    /\ method_name.s \in api3_methods
    /\ pc' = "call"
    /\ UNCHANGED <<env, g_api3_payload, locals, result, num_entities, exc,
                   driver, upstream, log, skip_http_log, response>>

Generator == [t |-> "generator"]

\* line 164: result = method(method_params)
json_api_call ==
    /\ pc = "call"
    /\ handler_calls' = handler_calls + 1
    /\ \/ \E v \in HandlerValues :
            /\ result' = v /\ pc' = "normalise"
            /\ handler_returned' = v
            /\ UNCHANGED <<exc, coroutine>>
       \/ \E e \in HandlerRaises :
            /\ exc' = e /\ pc' = "except"
            /\ UNCHANGED <<result, coroutine, handler_returned>>
       \/ /\ result' = Generator /\ pc' = "next"
          /\ handler_returned' = Generator
          /\ coroutine' = [NoCoroutine EXCEPT !.state = "created"]
          /\ UNCHANGED exc
    /\ UNCHANGED <<env, g_api3_payload, locals, num_entities,
                   passthrough_results, upstream, log, skip_http_log, response>>

\* lines 170-172: passthrough_params = next(coroutine)
json_api_next ==
    /\ pc = "next"
    /\ \/ \E o \in Overrides :
            /\ coroutine' = [coroutine EXCEPT !.state = "suspended",
                                              !.yielded = <<o>>]
            /\ pc' = "passthrough"
            /\ UNCHANGED exc
       \/ \E e \in HandlerRaises \cup {StopIteration} :
            /\ coroutine' = [coroutine EXCEPT !.state = "finished"]
            /\ exc' = e /\ pc' = "except"
    /\ UNCHANGED <<env, g_api3_payload, locals, result, num_entities,
                   passthrough_results, handler_calls, handler_returned,
                   upstream, log, skip_http_log, response>>

\* a throw that reaches a handler which answers the failure with the
\* Passthrough signal
coroutine_throw_answered(e) == Exc("Passthrough", <<JStr("upstream failed")>>)

\* line 176: coroutine.throw(*sys.exc_info()).  The module never imports
\* sys (lines 1-19), so evaluating the argument raises NameError and the
\* generator is never resumed.
coroutine_throw(e) == Exc("NameError", <<>>)

\* lines 173-176: passthrough_results = passthrough(params=passthrough_params)
json_api_passthrough ==
    /\ pc = "passthrough"
    /\ LET passthrough_params == coroutine.yielded[1]
           r == passthrough_request(g_api3_payload, request.headers,
                                    passthrough_params, FALSE)
       IN  /\ g_api3_payload' = r.stored
           /\ IF ~r.ok
              THEN /\ exc' = coroutine_throw(r.exc) /\ pc' = "except"
                   /\ UNCHANGED <<upstream, passthrough_results>>
              ELSE \E up \in JsonReplies :
                     LET o == passthrough_outcome(up, FALSE, FALSE, TRUE) IN
                     /\ upstream_calls' = Append(upstream_calls, r.req)
                     /\ upstream_replies' = Append(upstream_replies, up)
                     /\ IF o.raised
                        THEN /\ exc' = coroutine_throw(o.exc) /\ pc' = "except"
                             /\ UNCHANGED passthrough_results
                        ELSE /\ passthrough_results' = o.value /\ pc' = "send"
                             /\ UNCHANGED exc
    /\ UNCHANGED <<env, locals, result, num_entities, coroutine, handler_calls,
                   handler_returned, log, skip_http_log, response>>

\* line 178: result = coroutine.send(passthrough_results)
json_api_send ==
    /\ pc = "send"
    /\ \/ \E v \in HandlerValues :
            /\ coroutine' = [coroutine EXCEPT
                    !.sent = Append(@, passthrough_results),
                    !.yielded = Append(@, v)]
            /\ result' = v /\ pc' = "extra"
            /\ UNCHANGED exc
       \/ \E e \in HandlerRaises \cup {StopIteration} :
            /\ coroutine' = [coroutine EXCEPT
                    !.sent = Append(@, passthrough_results),
                    !.state = "finished"]
            /\ exc' = e /\ pc' = "except"
            /\ UNCHANGED result
    /\ UNCHANGED <<env, g_api3_payload, locals, num_entities,
                   passthrough_results, handler_calls, handler_returned,
                   upstream, log, skip_http_log, response>>

\* line 180: the body of the loop logs x and binds nothing; result keeps
\* the value line 178 gave it
after_extra(res, x) == res

\* lines 179-180: for x in coroutine: log.warning('Extra yielded ...')
json_api_extra ==
    /\ pc = "extra"
    /\ \/ \E x \in ExtraValues :
            /\ Len(coroutine.yielded) - 2 < MaxExtra
            /\ coroutine' = [coroutine EXCEPT !.yielded = Append(@, x)]
            /\ log' = Append(log, [level |-> "warning",
                                   event |-> "Extra yielded", value |-> x])
            /\ result' = after_extra(result, x)
            /\ UNCHANGED <<pc, exc>>
       \/ /\ coroutine' = [coroutine EXCEPT !.state = "finished"]
          /\ pc' = "normalise"
          /\ UNCHANGED <<log, exc, result>>
       \/ \E e \in HandlerRaises :
            /\ coroutine' = [coroutine EXCEPT !.state = "finished"]
            /\ exc' = e /\ pc' = "except"
            /\ UNCHANGED <<log, result>>
    /\ UNCHANGED <<env, g_api3_payload, locals, num_entities,
                   passthrough_results, handler_calls, handler_returned,
                   upstream, skip_http_log, response>>

\* lines 184-185: except ReturnResponse as e: result = e.args
json_api_except_ReturnResponse ==
    /\ pc = "except"
    /\ IsReturnResponse(exc)
    /\ result' = PyTuple(exc.args)
    /\ pc' = "normalise"
    /\ UNCHANGED <<env, g_api3_payload, locals, num_entities, exc, driver,
                   upstream, log, skip_http_log, response>>

\* lines 190-194: the body of an emulated Shotgun fault
result_data(e) ==
    JMap([exception |-> JBool(TRUE), error_code |-> JNum(e.code),
          message |-> e.args[1]])

\* line 196: result = json.dumps(res_data), 200, [...].  The dict was bound
\* to result_data at line 190; res_data is no name of the module or of the
\* function, so the line raises NameError.
fault_result(e) ==
    [raised |-> TRUE, exc |-> Exc("NameError", <<>>), value |-> None]

\* lines 188-196: except Fault as e
json_api_except_Fault ==
    /\ pc = "except"
    /\ IsFault(exc)
    /\ log' = Append(log, [level |-> "warning", event |-> "Fault",
                           code |-> exc.code, message |-> exc.args[1]])
    /\ IF fault_result(exc).raised
       THEN Propagate(fault_result(exc).exc) /\ UNCHANGED result
       ELSE /\ result' = fault_result(exc).value /\ pc' = "normalise"
            /\ UNCHANGED response
    /\ UNCHANGED <<env, g_api3_payload, locals, num_entities, exc, driver,
                   upstream, skip_http_log>>

\* except Passthrough returning the delegated response at once, as line 158
\* does for an unknown method
json_api_except_Passthrough_returning ==
    /\ pc = "except"
    /\ IsPassthrough(exc)
    /\ log' = Append(log, [level |-> "info", event |-> "Passing through",
                           method_name |-> method_name,
                           reason |-> "Passthrough"])
    /\ \E up \in JsonReplies :
         /\ Delegate(up)
         /\ IF Delegated(up).raised
            THEN Propagate(Delegated(up).exc)
            ELSE Return(Delegated(up).value)
    /\ UNCHANGED <<env, locals, result, num_entities, exc, driver, skip_http_log>>

\* lines 199-210: except Passthrough as e.  What passthrough raises here is
\* raised inside an except clause, which the clauses beside it do not catch.
json_api_except_Passthrough ==
    /\ pc = "except"
    /\ IsPassthrough(exc)
    /\ log' = Append(log, [level |-> "info", event |-> "Passing through",
                           method_name |-> method_name,
                           reason |-> "Passthrough"])
    /\ \E up \in JsonReplies :
         /\ Delegate(up)
         /\ IF Delegated(up).raised
            THEN Propagate(Delegated(up).exc) /\ UNCHANGED result
            ELSE /\ result' = Delegated(up).value /\ pc' = "normalise"
                 /\ UNCHANGED response
    /\ UNCHANGED <<env, locals, num_entities, exc, driver, skip_http_log>>

\* any other exception is caught by no clause of lines 184-210
json_api_uncaught ==
    /\ pc = "except"
    /\ ~IsReturnResponse(exc) /\ ~IsFault(exc) /\ ~IsPassthrough(exc)
    /\ Propagate(exc)
    /\ UNCHANGED <<env, g_api3_payload, locals, result, num_entities, exc,
                   driver, upstream, log, skip_http_log>>

\* lines 212-215
count_entities(res) ==
    IF isdict(res) /\ HasKey(res, "entities")
    THEN JNum(Len(res.kv["entities"].items)) ELSE None

\* line 219: isinstance(result, Response) or (isinstance(result, (list,
\* tuple)) and isinstance(result[0], Response)); result[0] of an empty
\* sequence raises IndexError
is_response(res) ==
    CASE res.t = "Response" -> [raised |-> FALSE, exc |-> NoExc, value |-> TRUE]
      [] res.t \in {"list", "tuple"} /\ Len(res.items) = 0 ->
            [raised |-> TRUE, exc |-> Exc("IndexError", <<>>), value |-> FALSE]
      [] res.t \in {"list", "tuple"} ->
            [raised |-> FALSE, exc |-> NoExc,
             value |-> res.items[1].t = "Response"]
      [] OTHER -> [raised |-> FALSE, exc |-> NoExc, value |-> FALSE]

\* lines 217-220: the value json_api goes on to return
normalise(res) ==
    LET r == is_response(res) IN
    IF r.raised THEN [raised |-> TRUE, exc |-> r.exc, value |-> res]
    ELSE IF r.value THEN [raised |-> FALSE, exc |-> NoExc, value |-> res]
    ELSE IF ~Serializable(res)
    THEN [raised |-> TRUE, exc |-> Exc("TypeError", <<>>), value |-> res]
    ELSE [raised |-> FALSE, exc |-> NoExc,
          value |-> PyTuple(<<json_dumps(res), JNum(200), JsonHeaderList>>)]

\* lines 212-220
json_api_normalise ==
    /\ pc = "normalise"
    /\ num_entities' = count_entities(result)
    /\ IF normalise(result).raised
       THEN Propagate(normalise(result).exc) /\ UNCHANGED result
       ELSE /\ result' = normalise(result).value /\ pc' = "return"
            /\ UNCHANGED response
    /\ UNCHANGED <<env, g_api3_payload, locals, exc, driver, upstream, log,
                   skip_http_log>>

\* lines 223-226: the completion line.  It reads entity_type only when
\* num_entities is truthy; entity_type is bound only when method_params is
\* a dict (line 127).
completion_line(n, etype) ==
    IF Truthy(n) /\ etype = Unbound
    THEN [raised |-> TRUE, exc |-> Exc("UnboundLocalError", <<>>), value |-> None]
    ELSE [raised |-> FALSE, exc |-> NoExc,
          value |-> [level |-> "info", event |-> "Returned",
                     num_entities |-> n,
                     entity_type |-> IF Truthy(n) THEN etype ELSE None]]

\* lines 222-229: the completion line, the flag, the return
json_api_return ==
    /\ pc = "return"
    /\ IF completion_line(num_entities, entity_type).raised
       THEN /\ Propagate(completion_line(num_entities, entity_type).exc)
            /\ UNCHANGED <<log, skip_http_log>>
       ELSE /\ log' = Append(log, completion_line(num_entities, entity_type).value)
            /\ skip_http_log' = TRUE
            /\ Return(result)
    /\ UNCHANGED <<env, g_api3_payload, locals, result, num_entities, exc,
                   driver, upstream>>

----------------------------------------------------------------------------
(* proxy, lines 242-266. *)

BinaryBody == Text(Undecodable, "upstream")

BodyLengths == {0, 100, CHUNK, CHUNK + 1, 2 * CHUNK}

ProxyReplyHeaderNames == {"Host", "connection", "Transfer-Encoding", "Etag"}

ProxyReplies ==
    {UpstreamReply(s, BinaryBody, n, HeaderSet(names)) :
        s \in {200, 404}, n \in BodyLengths,
        names \in SUBSET ProxyReplyHeaderNames}

\* Response(..., headers=headers): werkzeug adds the default mimetype when
\* the headers carry no Content-Type
with_content_type(headers) ==
    IF \E h \in headers : Lower(h[1]) = "content-type" THEN headers
    ELSE headers \cup HtmlContentType

proxy ==
    /\ route = "proxy" /\ pc = "start"
    /\ \E up \in ProxyReplies :
         /\ upstream_calls' = Append(upstream_calls,
                [url |-> "FALLBACK_SERVER/path", data |-> request.data,
                 headers |-> outbound_headers(request.headers),
                 stream |-> TRUE])
         /\ upstream_replies' = Append(upstream_replies, up)
         /\ Return(Response(Stream(up.text, up.len), up.status,
                            with_content_type(relayed_headers(up.headers))))
    /\ UNCHANGED <<env, g_api3_payload, locals, result, num_entities, exc,
                   driver, log, skip_http_log>>

----------------------------------------------------------------------------
(* Vocabulary of the properties below. *)

Done == pc = "done"
JsonDone == route = "json_api" /\ pc = "done"
Responded == response.kind = "response"

\* the envelope the client sent
ClientPayload == json_loads(request.data)

\* Section 3 of the data model: a map with method_name and a params
\* sequence of an Auth Context map and Method Params (a map, or batch items)
WellFormed(payload) ==
    /\ isdict(payload)
    /\ HasKey(payload, "method_name") /\ HasKey(payload, "params")
    /\ islist(payload.kv["params"])
    /\ LET ps == payload.kv["params"].items IN
       /\ Len(ps) >= 1 => isdict(ps[1])
       /\ Len(ps) >= 2 => \/ isdict(ps[2])
                          \/ islist(ps[2]) /\ BatchItemsOk(ps[2])

Registered(payload) == payload.kv["method_name"].s \in api3_methods

\* the values of the 'Extra yielded' warnings, in the order logged
ExtraWarnings ==
    LET w == SelectSeq(log, LAMBDA r : r.event = "Extra yielded") IN
    [i \in 1..Len(w) |-> w[i].value]

\* the 'Returned ...' line was logged
CompletionLogged == \E i \in 1..Len(log) : log[i].event = "Returned"

----------------------------------------------------------------------------

Next ==
    \/ json_api_decode
    \/ json_api_headline
    \/ json_api_unknown_method
    \/ json_api_lookup
    \/ json_api_call
    \/ json_api_next
    \/ json_api_passthrough
    \/ json_api_send
    \/ json_api_extra
    \/ json_api_except_ReturnResponse
    \/ json_api_except_Fault
    \/ json_api_except_Passthrough
    \/ json_api_uncaught
    \/ json_api_normalise
    \/ json_api_return
    \/ proxy

Spec == Init /\ [][Next]_vars

----------------------------------------------------------------------------
(* Properties. *)

\* C1: for a well-formed envelope naming an unregistered method, whatever
\* the upstream answers (200 or not), json_api invokes no handler and the
\* client gets the status, body and headers of the one streaming call.
C1_UnknownMethodRelaysUpstream ==
    (JsonDone /\ WellFormed(ClientPayload) /\ ~Registered(ClientPayload)) =>
        /\ handler_calls = 0
        /\ Len(upstream_calls) = 1
        /\ upstream_calls[1].stream
        /\ Responded
        /\ response.status = upstream_replies[1].status
        /\ Delivered(response.body) = upstream_replies[1].text
        /\ response.headers = JsonContentType

\* C2: a Fault(c, m) raised by a handler (Direct, or Two-Phase before or
\* after its suspension) is answered with status 200, Content-Type
\* application/json and the body {exception: true, error_code: c,
\* message: m}, never with an unhandled error.
C2_FaultBecomesFaultBody ==
    (JsonDone /\ IsFault(exc)) =>
        response = Sent(200,
                        json_dumps(JMap([exception |-> JBool(TRUE),
                                         error_code |-> JNum(exc.code),
                                         message |-> exc.args[1]])),
                        JsonContentType)

\* the params of the client's envelope, and of the buffered upstream call
ClientParams == ClientPayload.kv["params"].items
BufferedCall == json_loads(upstream_calls[1].data)
\* a Two-Phase handler's override went upstream in a buffered call
OverrideSent ==
    /\ route = "json_api"
    /\ Len(coroutine.yielded) >= 1 /\ coroutine.yielded[1] # None
    /\ Len(upstream_calls) >= 1 /\ ~upstream_calls[1].stream

\* C3: for params of one, two or more elements, the upstream call of a
\* Two-Phase handler carries the original method_name and Auth Context
\* (params[0]), with only the method-params slot (params[1]) replaced by
\* the yielded override, and the handler is resumed with exactly the
\* decoded upstream result.
C3_OverrideReplacesMethodParamsSlot ==
    (OverrideSent /\ WellFormed(ClientPayload) /\ Len(ClientParams) >= 1) =>
        /\ BufferedCall.kv["method_name"] = ClientPayload.kv["method_name"]
        /\ LET sent == BufferedCall.kv["params"].items IN
           /\ Len(sent) = IF Len(ClientParams) < 2 THEN 2 ELSE Len(ClientParams)
           /\ sent[1] = ClientParams[1]
           /\ sent[2] = coroutine.yielded[1]
           /\ \A i \in 3..Len(ClientParams) : sent[i] = ClientParams[i]
        /\ Len(coroutine.sent) >= 1 =>
               coroutine.sent[1] = json_loads(upstream_replies[1].text)

\* a generator that yielded at least twice and then ran to its end
YieldedTwiceAndFinished ==
    /\ route = "json_api"
    /\ Len(coroutine.yielded) >= 2
    /\ coroutine.state = "finished" /\ exc = NoExc

\* C4: when a Two-Phase handler yields n >= 2 values before finishing there
\* is exactly one upstream call, every yield after the first is logged as a
\* warning and ignored (it does not become the response), and the request
\* ends in a response, not in an unhandled error.
C4_YieldsAfterFirstIgnored ==
    (Done /\ YieldedTwiceAndFinished) =>
        /\ Len(upstream_calls) = 1
        /\ ExtraWarnings = Tail(coroutine.yielded)
        /\ Responded
        /\ response.body # json_dumps(coroutine.yielded[2])

\* C5: a non-200 answer of the upstream to any call of the JSON dispatch
\* (unknown method, delegation, the buffered call of a Two-Phase handler)
\* reaches the client with exactly the upstream's status and body.
C5_UpstreamFailureRelayed ==
    JsonDone =>
        \A i \in 1..Len(upstream_replies) :
            upstream_replies[i].status # 200 =>
                /\ Responded
                /\ response.status = upstream_replies[i].status
                /\ Delivered(response.body) = upstream_replies[i].text

\* C6: when the buffered call of a Two-Phase handler is answered 200 with
\* a body whose decoded value contains exception, the handler is not
\* resumed and the client gets status 200, the upstream's body unchanged
\* and Content-Type application/json.
C6_UpstreamFaultRelayedVerbatim ==
    (/\ JsonDone
     /\ Len(upstream_calls) >= 1 /\ ~upstream_calls[1].stream
     /\ upstream_replies[1].status = 200
     /\ json_loads(upstream_replies[1].text) # Undecodable
     /\ contains_exception(json_loads(upstream_replies[1].text))) =>
        /\ coroutine.sent = << >>
        /\ response = Sent(200, upstream_replies[1].text, JsonContentType)

\* the body decodes to something that is no map, or to a map without method_name
NotAnEnvelope ==
    /\ route = "json_api"
    /\ ClientPayload # Undecodable
    /\ ~isdict(ClientPayload) \/ ~HasKey(ClientPayload, "method_name")

\* C7: a body that decodes to a non-map, or to a map without method_name,
\* is answered 400 with an empty body; no handler is invoked and no
\* upstream call is made.
C7_MalformedEnvelopeRejected ==
    NotAnEnvelope =>
        /\ handler_calls = 0
        /\ upstream_calls = << >>
        /\ pc \in {"start", "done"}
        /\ pc = "done" => /\ Responded
                          /\ response.status = 400
                          /\ response.body = EmptyText

C7_Witness ==
    /\ NotAnEnvelope /\ pc = "done"
    /\ isdict(ClientPayload) /\ HasKey(ClientPayload, "params")
    /\ response.status = 400

\* C8: a raw JSON-serializable value a registered handler returns (a map, a
\* scalar, a non-empty or an empty sequence) is answered with status 200,
\* Content-Type application/json and its JSON serialization; a pre-built
\* Response is returned as it is.
C8_ReturnedValueSerialized ==
    (JsonDone /\ handler_returned \notin {Unbound, Generator}) =>
        IF handler_returned.t = "Response"
        THEN response = Sent(handler_returned.status, handler_returned.body,
                             handler_returned.headers)
        ELSE response = Sent(200, json_dumps(handler_returned), JsonContentType)

NoHost(headers) == \A h \in headers : Lower(h[1]) # "host"
NoHopByHop(headers) == \A h \in headers : Lower(h[1]) \notin HopByHop

\* C10 as stated: no outbound request of passthrough or proxy, and no
\* response proxy relays, carries Host or a hop-by-hop header.
C10_NoHostNoHopByHop ==
    /\ \A i \in 1..Len(upstream_calls) :
          NoHost(upstream_calls[i].headers) /\ NoHopByHop(upstream_calls[i].headers)
    /\ (route = "proxy" /\ Done) =>
          NoHost(response.headers) /\ NoHopByHop(response.headers)

\* C10 as amended: no outbound request of passthrough or proxy carries
\* Host or a hop-by-hop header, and no response proxy relays carries a
\* hop-by-hop header; a Host header of the upstream's response is relayed.
C10_SanitizedHeaders ==
    /\ \A i \in 1..Len(upstream_calls) :
          NoHost(upstream_calls[i].headers) /\ NoHopByHop(upstream_calls[i].headers)
    /\ (route = "proxy" /\ Done) =>
          /\ NoHopByHop(response.headers)
          /\ \A h \in upstream_replies[1].headers :
                Lower(h[1]) \notin HopByHop => h \in response.headers

C10_Witness ==
    /\ route = "proxy" /\ Done
    /\ ~NoHost(request.headers) /\ ~NoHopByHop(request.headers)
    /\ ~NoHost(upstream_replies[1].headers)
    /\ ~NoHopByHop(upstream_replies[1].headers)
    /\ NoHost(upstream_calls[1].headers) /\ NoHopByHop(upstream_calls[1].headers)
    /\ NoHopByHop(response.headers) /\ ~NoHost(response.headers)

----------------------------------------------------------------------------

\* proxy answered the request from an upstream body of n bytes
ProxyRelayed(n) ==
    /\ route = "proxy" /\ Done
    /\ Len(upstream_replies) = 1 /\ upstream_replies[1].len = n

\* C11: whatever the length of the upstream's body (empty, shorter than a
\* chunk, longer than a chunk, an exact multiple of the chunk size) and
\* whatever its status, proxy answers with the upstream's status and a
\* stream of chunks of 1..8192 bytes that reassemble to exactly the
\* upstream's body, which is never parsed as JSON.
C11_ProxyRelaysBodyAndStatus ==
    (route = "proxy" /\ Done) =>
        /\ Responded
        /\ Len(upstream_calls) = 1 /\ upstream_calls[1].stream
        /\ response.status = upstream_replies[1].status
        /\ response.body.t = "stream"
        /\ \A i \in 1..Len(response.body.chunks) :
              response.body.chunks[i].len \in 1..CHUNK
        /\ Contiguous(response.body.chunks, 0) = upstream_replies[1].len
        /\ Delivered(response.body) = upstream_replies[1].text
        /\ json_loads(upstream_replies[1].text) = Undecodable

C11_Witness ==
    /\ ProxyRelayed(2 * CHUNK)
    /\ upstream_replies[1].status # 200
    /\ Len(response.body.chunks) = 2
    /\ Delivered(response.body) = upstream_replies[1].text

----------------------------------------------------------------------------

\* the envelope names 'batch' and its method params are a sequence of
\* batch items
BatchRequest ==
    /\ route = "json_api" /\ method_name = JStr("batch")
    /\ islist(method_params) /\ BatchItemsOk(method_params)

\* the request types of the batch items, and how often t occurs among them
RequestTypes ==
    {method_params.items[i].kv["request_type"].s :
        i \in 1..Len(method_params.items)}
Occurrences(t) ==
    Cardinality({i \in 1..Len(method_params.items) :
                    method_params.items[i].kv["request_type"].s = t})

\* C12: for a 'batch' request whose method params are batch items, the
\* first record logged is the summary line; it lists each distinct
\* request_type once with its number of occurrences, with 's' exactly
\* when that number is not 1, in ascending order of the numbers; and it is
\* logged before the registry is consulted, a handler invoked or the
\* upstream called.
C12_BatchSummaryLogged ==
    BatchRequest =>
        /\ pc = "headline" =>
              log = << >> /\ handler_calls = 0 /\ upstream_calls = << >>
        /\ pc # "headline" =>
              /\ Len(log) >= 1 /\ log[1].event = "Starting"
              /\ log[1].method_name = JStr("batch")
              /\ LET b == log[1].batch.items IN
                 /\ Len(b) = Cardinality(RequestTypes)
                 /\ {b[i].name : i \in 1..Len(b)} = RequestTypes
                 /\ \A i \in 1..Len(b) :
                       /\ b[i].count = Occurrences(b[i].name)
                       /\ b[i].plural = IF b[i].count = 1 THEN "" ELSE "s"
                 /\ \A i, j \in 1..Len(b) : i < j => b[i].count <= b[j].count

C12_Witness ==
    /\ BatchRequest /\ pc = "lookup" /\ handler_calls = 0
    /\ Len(method_params.items) = 3
    /\ log = <<[level |-> "info", event |-> "Starting",
                method_name |-> JStr("batch"), on |-> None,
                batch |-> JList(<<[count |-> 1, name |-> "create", plural |-> ""],
                                  [count |-> 2, name |-> "read", plural |-> "s"]>>),
                by_script |-> None, as_user |-> None,
                by_user |-> JStr("alice")]>>

----------------------------------------------------------------------------

\* what passthrough(params=...) made of the upstream's answer to the
\* buffered call of a Two-Phase handler
BufferedOutcome == passthrough_outcome(upstream_replies[1], FALSE, FALSE, TRUE)

\* the buffered call failed: a non-200 status, or a relayed upstream error
BufferedCallFailed ==
    /\ route = "json_api"
    /\ Len(upstream_calls) >= 1 /\ ~upstream_calls[1].stream
    /\ BufferedOutcome.raised /\ IsReturnResponse(BufferedOutcome.exc)

\* C13: when the buffered call of a Two-Phase handler fails, the failure
\* is thrown into the suspended handler; so the exception json_api then
\* deals with is the handler's own or that failure, and a request whose
\* handler was left suspended ends in the response the outcome rules make
\* of the failure.
C13_FailureThrownIntoHandler ==
    BufferedCallFailed =>
        /\ pc = "except" =>
              \/ coroutine.state = "finished"
              \/ exc = BufferedOutcome.exc
        /\ pc = "done" =>
              \/ coroutine.state = "finished"
              \/ response = make_response(PyTuple(BufferedOutcome.exc.args))

----------------------------------------------------------------------------

\* the generator ran to its end on its first resumption, yielding nothing
FinishedWithoutSuspending ==
    /\ route = "json_api"
    /\ coroutine.state = "finished" /\ coroutine.yielded = << >>
    /\ exc = StopIteration

\* C14: a Two-Phase handler that finishes on its first resumption without
\* suspending causes no upstream call, and the request ends in a response,
\* not in an unhandled error.
C14_FinishedGeneratorAnswered ==
    FinishedWithoutSuspending =>
        /\ upstream_calls = << >>
        /\ pc = "done" => Responded

----------------------------------------------------------------------------

\* a Two-Phase handler was resumed with the upstream's result and then
\* raised the Passthrough signal, which json_api has acted on
PassthroughAfterResume ==
    /\ route = "json_api"
    /\ Len(coroutine.sent) = 1 /\ IsPassthrough(exc)
    /\ pc \in {"normalise", "return", "done"}

\* C15 as stated: handling one request to a registered handler issues at
\* most one upstream call, whatever the handler does.
C15_AtMostOneUpstreamCall ==
    (route = "json_api" /\ handler_calls >= 1) => Len(upstream_calls) <= 1

\* C15 as amended: handling one request to a registered handler issues at
\* most one buffered call and at most one streaming call, the buffered one
\* first; both are issued exactly when a Two-Phase handler whose buffered
\* call succeeded raises the Passthrough signal after it was resumed.
C15_OneBufferedOneStreaming ==
    (route = "json_api" /\ handler_calls >= 1) =>
        /\ handler_calls = 1
        /\ Len(upstream_calls) <= 2
        /\ Len(upstream_calls) = 2 =>
              /\ ~upstream_calls[1].stream /\ upstream_calls[2].stream
              /\ upstream_replies[1].status = 200
        /\ Len(upstream_calls) = 2 <=> PassthroughAfterResume

C15_Witness ==
    /\ PassthroughAfterResume /\ pc = "done" /\ Responded
    /\ Len(upstream_calls) = 2
    /\ ~upstream_calls[1].stream /\ upstream_calls[2].stream
    /\ response.status = upstream_replies[2].status

----------------------------------------------------------------------------

\* C16: an upstream call answered with a status other than 200 is the last
\* upstream call of its request, on every path of json_api (unknown method,
\* delegation, Two-Phase).
C16_NoCallAfterFailure ==
    route = "json_api" =>
        \A i \in 1..Len(upstream_replies) :
            upstream_replies[i].status # 200 =>
                /\ i = Len(upstream_calls)
                /\ pc \in {"except", "done"}

C16_Witness ==
    /\ JsonDone
    /\ Len(upstream_calls) = 1 /\ ~upstream_calls[1].stream
    /\ upstream_replies[1].status = 404
    /\ coroutine.state = "suspended"

----------------------------------------------------------------------------

\* the upstream calls made in streaming mode
StreamingCalls == {i \in 1..Len(upstream_calls) : upstream_calls[i].stream}

\* a registered handler raised the Passthrough signal and the upstream
\* answered the delegation with 200
DelegationAnswered ==
    /\ route = "json_api" /\ handler_calls >= 1 /\ IsPassthrough(exc)
    /\ Len(upstream_calls) >= 1
    /\ upstream_calls[Len(upstream_calls)].stream
    /\ upstream_replies[Len(upstream_replies)].status = 200

\* C17: when a registered handler raises the Passthrough signal and the
\* upstream answers 200, json_api has made exactly one streaming call, whose
\* body is the client's envelope with no override; the handler was invoked
\* once; and the client gets status 200, Content-Type application/json and
\* the upstream's body, nothing of it coming from the handler.
C17_PassthroughSignalDelegates ==
    DelegationAnswered =>
        LET k == Len(upstream_calls)
            relayed == Response(Stream(upstream_replies[k].text,
                                       upstream_replies[k].len),
                                200, JsonContentType)
        IN  /\ handler_calls = 1
            /\ StreamingCalls = {k}
            /\ json_loads(upstream_calls[k].data) = ClientPayload
            /\ pc \in {"normalise", "return", "done"}
            /\ pc \in {"normalise", "return"} => result = relayed
            /\ pc = "done" =>
                  /\ response = make_response(relayed)
                  /\ Delivered(response.body) = upstream_replies[k].text

C17_Witness ==
    /\ DelegationAnswered /\ pc = "done"
    /\ coroutine = NoCoroutine
    /\ Len(ClientParams) = 3
    /\ upstream_calls[1].stream
    /\ json_loads(upstream_calls[1].data) = ClientPayload
    /\ response.status = 200
    /\ Delivered(response.body) = upstream_replies[1].text

----------------------------------------------------------------------------

\* the body is a JSON map with a method_name key and a params sequence
IsEnvelope(payload) ==
    /\ payload # Undecodable /\ isdict(payload)
    /\ HasKey(payload, "method_name") /\ HasKey(payload, "params")
    /\ islist(payload.kv["params"])

\* C18: a request whose body is no JSON document, no map, or a map lacking
\* method_name, lacking params or carrying params that are no sequence, is
\* answered 400 with an empty body; no handler is invoked, no upstream call
\* is made and the request does not end in an unhandled error.
C18_EveryMalformedBodyRejected ==
    (route = "json_api" /\ ~IsEnvelope(ClientPayload)) =>
        /\ handler_calls = 0
        /\ upstream_calls = << >>
        /\ pc \in {"start", "done"}
        /\ pc = "done" => response = Sent(400, EmptyText, HtmlContentType)

----------------------------------------------------------------------------

\* C19: passthrough(params=override) leaves the stored envelope as the
\* client sent it, whether it returns or raises: g.api3_payload is the
\* decoded body throughout the request, and every delegation forwards the
\* client's params, not the override of an earlier buffered call.
C19_StoredEnvelopeUnmodified ==
    route = "json_api" =>
        /\ g_api3_payload \in {Unbound, ClientPayload}
        /\ pc \notin {"start", "done"} => g_api3_payload = ClientPayload
        /\ \A i \in StreamingCalls :
              json_loads(upstream_calls[i].data) = ClientPayload

C19_Witness ==
    /\ PassthroughAfterResume
    /\ coroutine.yielded[1] # None
    /\ Len(upstream_calls) = 2
    /\ json_loads(upstream_calls[1].data) # ClientPayload
    /\ json_loads(upstream_calls[2].data) = ClientPayload
    /\ g_api3_payload = ClientPayload

====
